---- MODULE Spec2Model ----
(***************************************************************************)
(* fencat (src/src/main.rs): read a text holding a FEN piece placement,    *)
(* validate it with FEN_REGEX, split it into rank tokens and print the     *)
(* board, optionally flipped, followed by the active color.                *)
(*                                                                         *)
(* A text is a sequence of characters, each character a one-element        *)
(* string; a character outside Latin-1 is written by its code point, as    *)
(* CodePoint(n) = "U+XXXX".  A printed line is a sequence of units:        *)
(* literal text, a background selector, a foreground selector or the style *)
(* reset.                                                                  *)
(***************************************************************************)
EXTENDS Integers, Sequences, FiniteSets, TLC

VARIABLES file, stdin, fen, flip, pc, active_color, board_lines, i, out, exit_code

vars == <<file, stdin, fen, flip, pc, active_color, board_lines, i, out, exit_code>>

(***************************************************************************)
(* Bounds of the explored inputs.                                          *)
(***************************************************************************)
MaxPre == 2
MaxSuf == 2
MaxRank == 2

(***************************************************************************)
(* Characters.                                                             *)
(***************************************************************************)
\* The character class [rnbqkpRNBQKP1-8] of FEN_REGEX.
FenClass ==
  {"r", "n", "b", "q", "k", "p", "R", "N", "B", "Q", "K", "P",
   "1", "2", "3", "4", "5", "6", "7", "8"}

\* The name of the character with code point n: "U+" and at least four
\* hexadecimal digits.
HexDigits ==
  <<"0", "1", "2", "3", "4", "5", "6", "7", "8", "9", "A", "B", "C", "D", "E", "F">>

RECURSIVE Hex(_, _)
Hex(n, width) ==
  IF n = 0 /\ width <= 0 THEN ""
  ELSE Hex(n \div 16, width - 1) \o HexDigits[(n % 16) + 1]

CodePoint(n) == "U+" \o Hex(n, 4)

\* The code points of a list of ranges <<first, last>>, by name.
NamedIn(ranges) ==
  UNION {{CodePoint(n) : n \in ranges[k][1]..ranges[k][2]} : k \in 1..Len(ranges)}

\* The Unicode property White_Space: U+0009-000D, U+0020, U+0085, U+00A0,
\* U+1680, U+2000-200A, U+2028, U+2029, U+202F, U+205F, U+3000.
WhiteSpaceRanges ==
  <<<<9, 13>>, <<32, 32>>, <<133, 133>>, <<160, 160>>, <<5760, 5760>>,
    <<8192, 8202>>, <<8232, 8233>>, <<8239, 8239>>, <<8287, 8287>>,
    <<12288, 12288>>>>

\* The white space characters, by name and, for the ASCII and Latin-1 ones
\* (tab, line feed, vertical tab, form feed, carriage return, space, next
\* line U+0085, no-break space U+00A0), as written in a text.
WhiteSpace ==
  NamedIn(WhiteSpaceRanges)
    \cup {" ", "\t", "\n", "", "\f", "\r", "", " "}

\* \s of the regex (Unicode mode) and the separators of
\* str::split_whitespace (char::is_whitespace): White_Space.
IsWhitespace(c) == c \in WhiteSpace

\* char::to_digit(10): the decimal value, or None.
None == -1
DecimalDigits == <<"0", "1", "2", "3", "4", "5", "6", "7", "8", "9">>
ToDigit(c) ==
  IF \E d \in 1..Len(DecimalDigits) : DecimalDigits[d] = c
  THEN (CHOOSE d \in 1..Len(DecimalDigits) : DecimalDigits[d] = c) - 1
  ELSE None

\* The characters of the general categories Nd, Nl and No other than the
\* ASCII digits, as ranges of code points: the 1914 characters for which
\* char::is_numeric of the standard library of rustc 1.95 is true and
\* to_digit(10) is None (src/ pins no toolchain; an older standard library
\* knows fewer of them).
NumericRanges ==
  <<
    <<178, 179>>, <<185, 185>>, <<188, 190>>, <<1632, 1641>>, <<1776, 1785>>,
    <<1984, 1993>>, <<2406, 2415>>, <<2534, 2543>>, <<2548, 2553>>,
    <<2662, 2671>>, <<2790, 2799>>, <<2918, 2927>>, <<2930, 2935>>,
    <<3046, 3058>>, <<3174, 3183>>, <<3192, 3198>>, <<3302, 3311>>,
    <<3416, 3422>>, <<3430, 3448>>, <<3558, 3567>>, <<3664, 3673>>,
    <<3792, 3801>>, <<3872, 3891>>, <<4160, 4169>>, <<4240, 4249>>,
    <<4969, 4988>>, <<5870, 5872>>, <<6112, 6121>>, <<6128, 6137>>,
    <<6160, 6169>>, <<6470, 6479>>, <<6608, 6618>>, <<6784, 6793>>,
    <<6800, 6809>>, <<6992, 7001>>, <<7088, 7097>>, <<7232, 7241>>,
    <<7248, 7257>>, <<8304, 8304>>, <<8308, 8313>>, <<8320, 8329>>,
    <<8528, 8578>>, <<8581, 8585>>, <<9312, 9371>>, <<9450, 9471>>,
    <<10102, 10131>>, <<11517, 11517>>, <<12295, 12295>>, <<12321, 12329>>,
    <<12344, 12346>>, <<12690, 12693>>, <<12832, 12841>>, <<12872, 12879>>,
    <<12881, 12895>>, <<12928, 12937>>, <<12977, 12991>>, <<42528, 42537>>,
    <<42726, 42735>>, <<43056, 43061>>, <<43216, 43225>>, <<43264, 43273>>,
    <<43472, 43481>>, <<43504, 43513>>, <<43600, 43609>>, <<44016, 44025>>,
    <<65296, 65305>>, <<65799, 65843>>, <<65856, 65912>>, <<65930, 65931>>,
    <<66273, 66299>>, <<66336, 66339>>, <<66369, 66369>>, <<66378, 66378>>,
    <<66513, 66517>>, <<66720, 66729>>, <<67672, 67679>>, <<67705, 67711>>,
    <<67751, 67759>>, <<67835, 67839>>, <<67862, 67867>>, <<68028, 68029>>,
    <<68032, 68047>>, <<68050, 68095>>, <<68160, 68168>>, <<68221, 68222>>,
    <<68253, 68255>>, <<68331, 68335>>, <<68440, 68447>>, <<68472, 68479>>,
    <<68521, 68527>>, <<68858, 68863>>, <<68912, 68921>>, <<68928, 68937>>,
    <<69216, 69246>>, <<69405, 69414>>, <<69457, 69460>>, <<69573, 69579>>,
    <<69714, 69743>>, <<69872, 69881>>, <<69942, 69951>>, <<70096, 70105>>,
    <<70113, 70132>>, <<70384, 70393>>, <<70736, 70745>>, <<70864, 70873>>,
    <<71248, 71257>>, <<71360, 71369>>, <<71376, 71395>>, <<71472, 71483>>,
    <<71904, 71922>>, <<72016, 72025>>, <<72688, 72697>>, <<72784, 72812>>,
    <<73040, 73049>>, <<73120, 73129>>, <<73184, 73193>>, <<73552, 73561>>,
    <<73664, 73684>>, <<74752, 74862>>, <<90416, 90425>>, <<92768, 92777>>,
    <<92864, 92873>>, <<93008, 93017>>, <<93019, 93025>>, <<93552, 93561>>,
    <<93824, 93846>>, <<94196, 94198>>, <<118000, 118009>>,
    <<119488, 119507>>, <<119520, 119539>>, <<119648, 119672>>,
    <<120782, 120831>>, <<123200, 123209>>, <<123632, 123641>>,
    <<124144, 124153>>, <<124401, 124410>>, <<125127, 125135>>,
    <<125264, 125273>>, <<126065, 126123>>, <<126125, 126127>>,
    <<126129, 126132>>, <<126209, 126253>>, <<126255, 126269>>,
    <<127232, 127244>>, <<130032, 130041>>
  >>

\* The characters for which char::is_numeric is true and to_digit(10) is
\* None: by name and, for those of Latin-1, as written in a text.
OtherNumeric == NamedIn(NumericRanges) \cup {"²", "³", "¹", "¼", "½", "¾"}

\* char::is_numeric: the general categories Nd, Nl and No.
IsNumeric(c) == ToDigit(c) # None \/ c \in OtherNumeric

(***************************************************************************)
(* Styling constants and fixed lines.                                      *)
(***************************************************************************)
BACKGROUND_DARK == "ESC[48;5;246m"
BACKGROUND_LIGHT == "ESC[48;5;249m"
RESET_COLOR == "ESC[0m"
FG_BLACK == "ESC[38;5;0m"
FG_WHITE == "ESC[38;5;231m"

\* "   a  b  c  d  e  f  g  h" and "   h  g  f  e  d  c  b  a", cut into the
\* file letters and the blanks between them.
HeaderNormal ==
  <<"   ", "a", "  ", "b", "  ", "c", "  ", "d", "  ", "e", "  ", "f", "  ", "g", "  ", "h">>
HeaderFlipped ==
  <<"   ", "h", "  ", "g", "  ", "f", "  ", "e", "  ", "d", "  ", "c", "  ", "b", "  ", "a">>

ErrorLine == <<"No FEN string provided or not readable.">>
UsageLines ==
  << <<"Fencat will read a FEN string from a file or stdin and print the chessboard.">>,
     <<"The FEN first FEN string found will be used.">>,
     <<"Usage: fencat (--flip) [FILE]">>,
     <<"Example: echo rnbqkbnr/pppppppp/8/8/8/8/PPPPPPPP/RNBQKBNR | fencat">>,
     <<"Example: fencat fen.txt">>,
     <<"Example: fencat < fen.txt">>,
     <<"Example: fencat --flip fen.txt">> >>

\* Display of a small unsigned integer ({} of usize in println!).
Show(n) == DecimalDigits[n + 1]

(***************************************************************************)
(* FEN_REGEX:  ([class]+\/){7}([class]+)\s*([bw])?                         *)
(***************************************************************************)
RECURSIVE RunEnd(_, _)
\* The position after the longest run of class characters starting at p.
RunEnd(s, p) ==
  IF p <= Len(s) /\ s[p] \in FenClass THEN RunEnd(s, p + 1) ELSE p

RECURSIVE WsEnd(_, _)
\* The position after the longest run of whitespace starting at p.
WsEnd(s, p) ==
  IF p <= Len(s) /\ IsWhitespace(s[p]) THEN WsEnd(s, p + 1) ELSE p

RECURSIVE SlashGroups(_, _, _)
\* The position after k groups "[class]+/" starting at p, or 0 when they do
\* not match there.
SlashGroups(s, p, k) ==
  IF k = 0 THEN p
  ELSE LET e == RunEnd(s, p)
       IN IF e > p /\ e <= Len(s) /\ s[e] = "/"
          THEN SlashGroups(s, e + 1, k - 1)
          ELSE 0

\* Whether the regex matches starting exactly at position p.
MatchesAt(s, p) ==
  LET q == SlashGroups(s, p, 7)
  IN q # 0 /\ RunEnd(s, q) > q

\* Regex::is_match: the pattern is unanchored.
IsMatch(s) == \E p \in 1..Len(s) : MatchesAt(s, p)

\* Regex::captures: the leftmost match; every repetition is greedy.
\* first..last is the text of groups 1-2 (the piece placement), color is
\* capture group 3 ("" when it did not take part).
Captures(s) ==
  LET p == CHOOSE x \in 1..Len(s) :
             MatchesAt(s, x) /\ \A y \in 1..(x - 1) : ~MatchesAt(s, y)
      q == SlashGroups(s, p, 7)
      e == RunEnd(s, q)
      w == WsEnd(s, e)
  IN [first |-> p,
      last  |-> e - 1,
      color |-> IF w <= Len(s) /\ s[w] \in {"b", "w"} THEN s[w] ELSE ""]

\* main, lines 61-70.
ActiveColorOf(s) ==
  LET c == Captures(s).color
  IN IF c = "w" THEN "White" ELSE IF c = "b" THEN "Black" ELSE "Unknown"

(***************************************************************************)
(* split_fen                                                               *)
(***************************************************************************)
\* fen.split_whitespace().take(1).collect().join(""): the first
\* whitespace-separated word of the text, or the empty text.
FirstWord(s) ==
  IF \A p \in 1..Len(s) : IsWhitespace(s[p]) THEN <<>>
  ELSE LET a == CHOOSE x \in 1..Len(s) :
                  ~IsWhitespace(s[x]) /\ \A y \in 1..(x - 1) : IsWhitespace(s[y])
           ends == {x \in a..Len(s) : IsWhitespace(s[x])}
           b == IF ends = {} THEN Len(s) + 1
                ELSE CHOOSE x \in ends : \A y \in ends : x <= y
       IN SubSeq(s, a, b - 1)

RECURSIVE SplitSlash(_)
\* str::split("/"): n separators give n + 1 pieces, empty ones included.
SplitSlash(s) ==
  LET at == {x \in 1..Len(s) : s[x] = "/"}
  IN IF at = {} THEN <<s>>
     ELSE LET x == CHOOSE x \in at : \A y \in at : x <= y
          IN <<SubSeq(s, 1, x - 1)>> \o SplitSlash(SubSeq(s, x + 1, Len(s)))

\* Iterator::take(n).
Take(q, n) == SubSeq(q, 1, IF Len(q) < n THEN Len(q) ELSE n)

split_fen(s) == Take(SplitSlash(FirstWord(s)), 8)

(***************************************************************************)
(* chessify                                                                *)
(***************************************************************************)
\* A variant of StartCounter that ignores the row parity.
StartCounterIgnoresRow(even) == 0

\* Lines 137-140: the square counter starts at 0 on even rows, 1 on odd rows.
StartCounter(even) == IF even THEN 0 ELSE 1

RECURSIVE Reverse(_)
Reverse(s) == IF s = <<>> THEN <<>> ELSE Append(Reverse(Tail(s)), Head(s))

\* A variant of OrderedLine that never reverses.
OrderedLineNeverReversed(line, reversed) == line

\* Lines 143-147.
OrderedLine(line, reversed) == IF reversed THEN Reverse(line) ELSE line

\* A variant of Background with the two tones exchanged.
BackgroundExchanged(c) == IF c % 2 = 0 THEN BACKGROUND_LIGHT ELSE BACKGROUND_DARK

\* Lines 160-163 and 169-172: the background of the square counted c.
Background(c) == IF c % 2 = 0 THEN BACKGROUND_DARK ELSE BACKGROUND_LIGHT

RECURSIVE EmptySquares(_, _)
\* Lines 158-165: n empty squares after the square counted c.
EmptySquares(c, n) ==
  IF n = 0 THEN <<>>
  ELSE <<Background(c + 1), "   ">> \o EmptySquares(c + 1, n - 1)

\* Lines 175-189: foreground selector and glyph of a piece letter.
PieceText(ch) ==
  CASE ch = "r" -> <<FG_BLACK, " <rook> ">>
    [] ch = "n" -> <<FG_BLACK, " <knight> ">>
    [] ch = "b" -> <<FG_BLACK, " <bishop> ">>
    [] ch = "q" -> <<FG_BLACK, " <queen> ">>
    [] ch = "k" -> <<FG_BLACK, " <king> ">>
    [] ch = "p" -> <<FG_BLACK, " <pawn> ">>
    [] ch = "R" -> <<FG_WHITE, " <rook> ">>
    [] ch = "N" -> <<FG_WHITE, " <knight> ">>
    [] ch = "B" -> <<FG_WHITE, " <bishop> ">>
    [] ch = "Q" -> <<FG_WHITE, " <queen> ">>
    [] ch = "K" -> <<FG_WHITE, " <king> ">>
    [] ch = "P" -> <<FG_WHITE, " <pawn> ">>
    [] OTHER -> <<" ">>

\* A variant of DigitUnits that resets only after piece squares.
DigitUnitsWithoutReset(c, n) == EmptySquares(c, n)

\* Lines 153-165 and 192: what a numeric character of value n appends.
DigitUnits(c, n) == EmptySquares(c, n) \o <<RESET_COLOR>>

\* Lines 166-192: what any other character appends.
PieceUnits(c, ch) == <<Background(c + 1)>> \o PieceText(ch) \o <<RESET_COLOR>>

RECURSIVE ChessifyLoop(_, _, _)
\* Lines 152-193: the characters of ol from position k on, with the square
\* counter at c.  panic: the unwrap of line 155 met None.
ChessifyLoop(ol, k, c) ==
  IF k > Len(ol) THEN [panic |-> FALSE, text |-> <<>>]
  ELSE IF IsNumeric(ol[k])
  THEN IF ToDigit(ol[k]) = None
       THEN [panic |-> TRUE, text |-> <<>>]
       ELSE LET n == ToDigit(ol[k])
                rest == ChessifyLoop(ol, k + 1, c + n)
            IN [panic |-> rest.panic,
                text  |-> IF rest.panic THEN <<>> ELSE DigitUnits(c, n) \o rest.text]
  ELSE LET rest == ChessifyLoop(ol, k + 1, c + 1)
       IN [panic |-> rest.panic,
           text  |-> IF rest.panic THEN <<>> ELSE PieceUnits(c, ol[k]) \o rest.text]

chessify(line, even, reversed) ==
  ChessifyLoop(OrderedLine(line, reversed), 1, StartCounter(even))

(***************************************************************************)
(* main: the body of the board.                                            *)
(***************************************************************************)
\* Lines 82 and 88: the rank token of the row at 0-based position k.
RowToken(lines, k, flipped) ==
  IF flipped THEN Reverse(lines)[k + 1] ELSE lines[k + 1]

\* Lines 83 and 89: the rank label of the row at 0-based position k.
RowLabel(k, flipped) == IF flipped THEN Show(k + 1) ELSE Show(8 - k)

\* Lines 83 and 89: the result of chessify for the row at position k.
RowSquares(lines, k, flipped) ==
  chessify(RowToken(lines, k, flipped), k % 2 = 0, flipped)

\* Lines 83 and 89: the printed body line.
BodyLine(lines, k, flipped) ==
  <<RowLabel(k, flipped), " ">> \o RowSquares(lines, k, flipped).text
    \o <<" ", RowLabel(k, flipped)>>

\* Lines 81, 85, 87 and 91.
Header(flipped) == IF flipped THEN HeaderFlipped ELSE HeaderNormal

\* Lines 80-92: header, one body line per rank token, footer.
BoardLines(lines, flipped) ==
  <<Header(flipped)>>
    \o [k \in 1..Len(lines) |-> BodyLine(lines, k - 1, flipped)]
    \o <<Header(flipped)>>

(***************************************************************************)
(* The inputs explored: a piece placement, or none, between a prefix and a *)
(* suffix of arbitrary characters; and a placement with one rank token     *)
(* replaced.                                                               *)
(***************************************************************************)
PreChars == {"x", " ", "¾", "/"}
SufChars == {" ", "w", "b", "x"}
RankChars == {"4", "p", "9"}

\* All sequences over S of length at most n.
SeqsUpTo(S, n) == UNION {[1..m -> S] : m \in 0..n}

StartRanks ==
  << <<"r", "n", "b", "q", "k", "b", "n", "r">>,
     <<"p", "p", "p", "p", "p", "p", "p", "p">>,
     <<"8">>, <<"8">>, <<"8">>, <<"8">>,
     <<"P", "P", "P", "P", "P", "P", "P", "P">>,
     <<"R", "N", "B", "Q", "K", "B", "N", "R">> >>

MixedRanks ==
  << <<"4", "k", "3">>, <<"p", "p", "p", "5">>, <<"8">>, <<"3", "P", "4">>,
     <<"8">>, <<"2", "N", "5">>, <<"5", "P", "P", "P">>, <<"R", "5", "K", "1">> >>

RECURSIVE JoinSlash(_)
\* The rank tokens written with "/" between them.
JoinSlash(ranks) ==
  IF Len(ranks) = 0 THEN <<>>
  ELSE IF Len(ranks) = 1 THEN ranks[1]
  ELSE ranks[1] \o <<"/">> \o JoinSlash(Tail(ranks))

Placements == {StartRanks, MixedRanks, <<>>}

\* Prefixes and suffixes with white space other than the space and with
\* numeric characters other than the ASCII digits.
ExtraPrefixes ==
  {<<>>, <<"x", "\f">>, <<"x", CodePoint(160)>>, <<"²">>, <<CodePoint(1635)>>,
   <<CodePoint(8551), "/">>}
ExtraSuffixes ==
  {<<>>, <<"\f", "w">>, <<CodePoint(160), "b">>, <<"\n", "w">>,
   <<CodePoint(12288), "w", "x">>, <<"½">>}

Inputs ==
  {pre \o JoinSlash(pl) \o suf :
     pre \in SeqsUpTo(PreChars, MaxPre),
     pl \in Placements,
     suf \in SeqsUpTo(SufChars, MaxSuf)}
  \cup
  {pre \o JoinSlash(pl) \o suf :
     pre \in ExtraPrefixes,
     pl \in Placements \ {<<>>},
     suf \in ExtraSuffixes}
  \cup
  {JoinSlash([pl EXCEPT ![j] = r]) :
     pl \in Placements \ {<<>>},
     j \in 1..8,
     r \in SeqsUpTo(RankChars, MaxRank) \ {<<>>}}

(***************************************************************************)
(* main                                                                    *)
(***************************************************************************)
\* What standard input holds: its first line is not valid UTF-8 (ok is
\* FALSE), or it is a text, possibly empty, possibly of several lines.
StdinTexts ==
  {<<>>,
   JoinSlash(MixedRanks),
   JoinSlash(StartRanks) \o <<"\n">>,
   JoinSlash(MixedRanks) \o <<" ", "b", "\n">>,
   <<"x", "\n">> \o JoinSlash(MixedRanks) \o <<"\n">>,
   JoinSlash(MixedRanks) \o <<"\n", "w", "\n">>,
   <<"x", "\n">>}

StdinChoices ==
  {[ok |-> FALSE, text |-> <<>>]} \cup {[ok |-> TRUE, text |-> s] : s \in StdinTexts}

\* The file named on the command line: read (ok, with its text), or not
\* named or not readable.  Standard input matters only without a file text.
Sources ==
  {[file |-> [ok |-> TRUE, text |-> s], stdin |-> [ok |-> TRUE, text |-> <<>>]] :
     s \in Inputs \ {<<>>}}
  \cup
  {[file |-> f, stdin |-> s] :
     f \in {[ok |-> FALSE, text |-> <<>>], [ok |-> TRUE, text |-> <<>>]},
     s \in StdinChoices}

\* BufRead::read_line: the text up to and including the first line feed.
ReadLine(s) ==
  LET at == {x \in 1..Len(s) : s[x] = "\n"}
  IN IF at = {} THEN s
     ELSE SubSeq(s, 1, CHOOSE x \in at : \A y \in at : x <= y)

\* Lines 30-40: the text of the file, or the empty text.
FileText == IF file.ok THEN file.text ELSE <<>>

\* The command line, the file and standard input, before main runs.
Init ==
  /\ \E src \in Sources : file = src.file /\ stdin = src.stdin
  /\ fen = <<>>
  /\ flip \in BOOLEAN
  /\ pc = "start"
  /\ active_color = ""
  /\ board_lines = <<>>
  /\ i = 0
  /\ out = <<>>
  /\ exit_code = None

\* Lines 28-45: the file gave a text; standard input is not read.
ReadFile ==
  /\ pc = "start"
  /\ FileText # <<>>
  /\ fen' = FileText
  /\ pc' = "check"
  /\ UNCHANGED <<file, stdin, flip, active_color, board_lines, i, out, exit_code>>

\* Lines 28-45: no file text; one line of standard input is read.
ReadStdin ==
  /\ pc = "start"
  /\ FileText = <<>>
  /\ stdin.ok
  /\ fen' = ReadLine(stdin.text)
  /\ pc' = "check"
  /\ UNCHANGED <<file, stdin, flip, active_color, board_lines, i, out, exit_code>>

\* Lines 43-45: read_line fails (the line is not valid UTF-8); main returns
\* the error: nothing is printed on standard output and the status is 1.
ReadStdinFails ==
  /\ pc = "start"
  /\ FileText = <<>>
  /\ ~stdin.ok
  /\ exit_code' = 1
  /\ pc' = "exit"
  /\ UNCHANGED <<file, stdin, fen, flip, active_color, board_lines, i, out>>

\* Lines 48-52: no text or no match: the message, the usage, exit(1).
RejectFen ==
  /\ pc = "check"
  /\ (fen = <<>> \/ ~IsMatch(fen))
  /\ out' = out \o <<ErrorLine>> \o UsageLines
  /\ exit_code' = 1
  /\ pc' = "exit"
  /\ UNCHANGED <<file, stdin, fen, flip, active_color, board_lines, i>>

\* Lines 48-70: the text matches; the active color is taken from the match.
ResolveActiveColor ==
  /\ pc = "check"
  /\ ~(fen = <<>> \/ ~IsMatch(fen))
  /\ active_color' = ActiveColorOf(fen)
  /\ pc' = "split"
  /\ UNCHANGED <<file, stdin, fen, flip, board_lines, i, out, exit_code>>

\* Line 73.
SplitFen ==
  /\ pc = "split"
  /\ board_lines' = split_fen(fen)
  /\ pc' = "header"
  /\ UNCHANGED <<file, stdin, fen, flip, active_color, i, out, exit_code>>

\* Lines 81 and 87.
PrintHeader ==
  /\ pc = "header"
  /\ out' = Append(out, Header(flip))
  /\ i' = 0
  /\ pc' = "body"
  /\ UNCHANGED <<file, stdin, fen, flip, active_color, board_lines, exit_code>>

\* Lines 82-84 and 88-90: one iteration of the loop that prints its line.
PrintBodyLine ==
  /\ pc = "body"
  /\ i < Len(board_lines)
  /\ ~RowSquares(board_lines, i, flip).panic
  /\ out' = Append(out, BodyLine(board_lines, i, flip))
  /\ i' = i + 1
  /\ UNCHANGED <<file, stdin, fen, flip, pc, active_color, board_lines, exit_code>>

\* Lines 83, 89 and 155: the unwrap panics while the line is being built;
\* nothing of the line is printed and the process ends with status 101.
PanicInBodyLine ==
  /\ pc = "body"
  /\ i < Len(board_lines)
  /\ RowSquares(board_lines, i, flip).panic
  /\ exit_code' = 101
  /\ pc' = "exit"
  /\ UNCHANGED <<file, stdin, fen, flip, active_color, board_lines, i, out>>

\* Lines 85 and 91.
PrintFooter ==
  /\ pc = "body"
  /\ i = Len(board_lines)
  /\ out' = Append(out, Header(flip))
  /\ pc' = "active"
  /\ UNCHANGED <<file, stdin, fen, flip, active_color, board_lines, i, exit_code>>

\* Lines 94-96.
PrintActiveColor ==
  /\ pc = "active"
  /\ out' = Append(out, <<"Active color: ", active_color>>)
  /\ exit_code' = 0
  /\ pc' = "exit"
  /\ UNCHANGED <<file, stdin, fen, flip, active_color, board_lines, i>>

Next ==
  \/ ReadFile
  \/ ReadStdin
  \/ ReadStdinFails
  \/ RejectFen
  \/ ResolveActiveColor
  \/ SplitFen
  \/ PrintHeader
  \/ PrintBodyLine
  \/ PanicInBodyLine
  \/ PrintFooter
  \/ PrintActiveColor

Spec == Init /\ [][Next]_vars

(***************************************************************************)
(* Reading the printed lines back.                                         *)
(***************************************************************************)
Backgrounds == {BACKGROUND_DARK, BACKGROUND_LIGHT}
Selectors == Backgrounds \cup {FG_BLACK, FG_WHITE}

RECURSIVE ContentEnd(_, _)
\* The position after the content that follows a background selector.
ContentEnd(t, p) ==
  IF p <= Len(t) /\ t[p] \notin Backgrounds \cup {RESET_COLOR}
  THEN ContentEnd(t, p + 1) ELSE p

RECURSIVE Cells(_)
\* The squares of a line: each background selector with what is shown on it.
Cells(t) ==
  IF t = <<>> THEN <<>>
  ELSE IF t[1] \in Backgrounds
  THEN LET e == ContentEnd(t, 2)
       IN <<[tone |-> t[1], content |-> SubSeq(t, 2, e - 1)]>>
            \o Cells(SubSeq(t, e, Len(t)))
  ELSE Cells(Tail(t))

Contents(cells) == [k \in 1..Len(cells) |-> cells[k].content]
Tones(cells) == [k \in 1..Len(cells) |-> cells[k].tone]

RECURSIVE StyleOn(_)
\* Whether a selector is in effect after the units of t have been written.
StyleOn(t) ==
  IF t = <<>> THEN FALSE
  ELSE LET u == t[Len(t)]
       IN IF u = RESET_COLOR THEN FALSE
          ELSE IF u \in Selectors THEN TRUE
          ELSE StyleOn(SubSeq(t, 1, Len(t) - 1))

\* The file letters of a header or footer line.
FileLabels(l) == [k \in 1..(Len(l) \div 2) |-> l[2 * k]]

\* A line as a grid row: its labels and its columns.
RowView(l) ==
  IF l[1] = "   "
  THEN [lead |-> "", cols |-> [k \in 1..(Len(l) \div 2) |-> [tone |-> "", content |-> <<l[2 * k]>>]], trail |-> ""]
  ELSE [lead |-> l[1], cols |-> Cells(l), trail |-> l[Len(l)]]

GridView(ls) == [k \in 1..Len(ls) |-> RowView(ls[k])]

\* The displayed grid flipped back: rows reversed, columns reversed in each row.
Reflip(g) ==
  LET rows == Reverse(g)
  IN [k \in 1..Len(rows) |->
        [lead |-> rows[k].lead, cols |-> Reverse(rows[k].cols), trail |-> rows[k].trail]]

\* The program went past validation.
Accepted == pc \in {"split", "header", "body", "active"} \/ (pc = "exit" /\ exit_code # 1)
\* split_fen has returned.
SplitDone == pc \in {"header", "body", "active"} \/ (pc = "exit" /\ exit_code # 1)
\* The run ended normally.
Finished == pc = "exit" /\ exit_code = 0

\* The piece placement of the first match, cut at its slashes.
MatchedRanks(s) == SplitSlash(SubSeq(s, Captures(s).first, Captures(s).last))

\* Every rank token decodes, and to exactly 8 squares; there are 8 of them.
WellFormed(lines) ==
  /\ Len(lines) = 8
  /\ \A k \in 1..8 :
       /\ ~chessify(lines[k], TRUE, FALSE).panic
       /\ Len(Cells(chessify(lines[k], TRUE, FALSE).text)) = 8

\* The board lines printed so far, and the complete board of both orientations.
PrintedBoard == SubSeq(out, 1, Len(out) - 1)
BoardOf(flipped) == IF flipped = flip THEN PrintedBoard ELSE BoardLines(board_lines, flipped)

\* The tone of the square at rank r (1..8) and file f (1..8, a = 1) in a
\* printed board of the given orientation.
ToneAt(board, flipped, r, f) ==
  LET row == IF flipped THEN r ELSE 9 - r
      col == IF flipped THEN 9 - f ELSE f
  IN Cells(board[row + 1])[col].tone

(***************************************************************************)
(* C1.  The rank tokens that are rendered are the eight groups of the      *)
(* first match of the grammar, whatever precedes or follows the match.     *)
(* Stated as claimed; the code renders the first whitespace-separated word *)
(* of the whole text instead.                                              *)
(***************************************************************************)
C1_RenderedRanksAreFirstMatch ==
  SplitDone => board_lines = MatchedRanks(fen)

(***************************************************************************)
(* C2.  When the eight rendered ranks decode to 8 squares each, the square *)
(* at absolute rank r and file f has the same background tone in the       *)
(* flip=false and in the flip=true output.                                 *)
(***************************************************************************)
C2_ShadingInvariantUnderFlip ==
  (Finished /\ WellFormed(board_lines)) =>
    \A r \in 1..8, f \in 1..8 :
      ToneAt(BoardOf(FALSE), FALSE, r, f) = ToneAt(BoardOf(TRUE), TRUE, r, f)

C2_Witness ==
  /\ Finished /\ WellFormed(board_lines) /\ flip
  /\ board_lines = MixedRanks
  /\ ToneAt(PrintedBoard, TRUE, 1, 1) = BACKGROUND_DARK
  /\ ToneAt(PrintedBoard, TRUE, 1, 2) = BACKGROUND_LIGHT

(***************************************************************************)
(* C3.  A printed board is a header, exactly eight body lines and a footer *)
(* equal to the header; body line k (0..7) carries the label 8-k, or k+1   *)
(* when flipped, at both ends.  Stated as claimed.                         *)
(***************************************************************************)
C3_TenLinesWithRankLabels ==
  Finished =>
    /\ Len(out) = 11
    /\ out[1] = Header(flip)
    /\ out[10] = out[1]
    /\ \A k \in 0..7 :
         LET l == out[k + 2]
             label == IF flip THEN Show(k + 1) ELSE Show(8 - k)
         IN l[1] = label /\ l[Len(l)] = label

(***************************************************************************)
(* C4.  Without a match the run fails having printed no line of a board;   *)
(* with a match it prints the board and ends with status zero; no run      *)
(* prints part of a board and then fails.  Stated as claimed.              *)
(***************************************************************************)
C4_AllOrNothing ==
  pc = "exit" =>
    IF IsMatch(fen)
    THEN exit_code = 0 /\ PrintedBoard = BoardLines(board_lines, flip)
    ELSE exit_code # 0 /\ \A k \in 1..Len(out) : out[k] \notin {HeaderNormal, HeaderFlipped}

(***************************************************************************)
(* C5.  A rank token holding the digit 9 is never rendered: the input is   *)
(* rejected, and a 9 is never expanded into empty squares.  Stated as      *)
(* claimed.                                                                *)
(***************************************************************************)
C5_NineNeverRendered ==
  SplitDone =>
    \A k \in 1..Len(board_lines) :
      \A j \in 1..Len(board_lines[k]) : board_lines[k][j] # "9"

(***************************************************************************)
(* C6.  For the starting position, not flipped, the top body row is rank 8 *)
(* with the Black pieces r n b q k b n r on files a..h, on alternating     *)
(* tones.  As claimed the row starts with the dark tone at file a; in the  *)
(* code it starts with the light tone.                                     *)
(***************************************************************************)
StartTopRowPrinted ==
  fen = JoinSlash(StartRanks) /\ ~flip /\ Len(out) >= 2

StartTopRowPieces ==
  /\ out[2][1] = "8"
  /\ Contents(Cells(out[2])) =
       << <<FG_BLACK, " <rook> ">>, <<FG_BLACK, " <knight> ">>,
          <<FG_BLACK, " <bishop> ">>, <<FG_BLACK, " <queen> ">>,
          <<FG_BLACK, " <king> ">>, <<FG_BLACK, " <bishop> ">>,
          <<FG_BLACK, " <knight> ">>, <<FG_BLACK, " <rook> ">> >>

\* The tones of a row alternate, starting with first.
Alternating(tones, first) ==
  /\ Len(tones) = 8
  /\ tones[1] = first
  /\ \A k \in 1..7 : tones[k + 1] # tones[k]

\* C6 as claimed: the top row starts with the dark tone at file a.
C6_StartTopRowStartsDark ==
  StartTopRowPrinted =>
    StartTopRowPieces /\ Alternating(Tones(Cells(out[2])), BACKGROUND_DARK)

\* C6 as amended: the top row starts with the light tone at file a.
C6_StartTopRowStartsLight ==
  StartTopRowPrinted =>
    StartTopRowPieces /\ Alternating(Tones(Cells(out[2])), BACKGROUND_LIGHT)

C6_Witness == StartTopRowPrinted /\ Finished

(***************************************************************************)
(* C7.  Reversing the lines of the flip=true output and the columns of     *)
(* each line gives the flip=false output, labels, contents and tones; and  *)
(* decoding a reversed rank token gives the reversed decoded rank.         *)
(***************************************************************************)
FlipInvolution ==
  Reflip(GridView(BoardOf(TRUE))) = GridView(BoardOf(FALSE))

\* The decoded rank of a token: what each of its squares shows, in order.
DecodedRank(token, reversed) ==
  Contents(Cells(chessify(token, TRUE, reversed).text))

\* Every rank token that chessify decodes, on a well-formed board or not:
\* read reversed it decodes to the reverse of its decoded rank, and the body
\* line printed for it shows that rank, reversed when flipped.
ReversedTokenDecodesReversed ==
  /\ \A k \in 1..Len(board_lines) :
       ~chessify(board_lines[k], TRUE, FALSE).panic =>
         DecodedRank(board_lines[k], TRUE) = Reverse(DecodedRank(board_lines[k], FALSE))
  /\ \A k \in 1..i :
       Contents(Cells(out[k + 1])) =
         IF flip THEN Reverse(DecodedRank(RowToken(board_lines, k - 1, flip), FALSE))
         ELSE DecodedRank(RowToken(board_lines, k - 1, flip), FALSE)

\* C7 as claimed, for every board rendered from the matched placement.
C7_FlipInvolutionEveryBoard ==
  (Finished /\ board_lines = MatchedRanks(fen)) =>
    FlipInvolution /\ ReversedTokenDecodesReversed

\* C7 as amended: the flip involution for every rendered board of eight ranks
\* that decode to 8 squares each; the reversal of the decoded rank for every
\* rendered rank token, in every state.
C7_FlipInvolutionWellFormed ==
  /\ (Finished /\ WellFormed(board_lines)) => FlipInvolution
  /\ ReversedTokenDecodesReversed

C7_Witness ==
  /\ Finished /\ WellFormed(board_lines) /\ flip
  /\ board_lines = StartRanks
  /\ board_lines[1] # Reverse(board_lines[1])

(***************************************************************************)
(* C8.  The active color is White (Black) exactly when the first matched   *)
(* placement is followed by whitespace and the standalone token w (b);     *)
(* otherwise Unknown.  Stated as claimed.                                  *)
(***************************************************************************)
StandaloneToken(s, c) ==
  LET e == Captures(s).last + 1
      w == WsEnd(s, e)
  IN /\ w > e
     /\ w <= Len(s)
     /\ s[w] = c
     /\ (w = Len(s) \/ IsWhitespace(s[w + 1]))

C8_ColorOnlyFromStandaloneToken ==
  Accepted =>
    active_color = IF StandaloneToken(fen, "w") THEN "White"
                   ELSE IF StandaloneToken(fen, "b") THEN "Black"
                   ELSE "Unknown"

(***************************************************************************)
(* C9.  In every printed body line the style reset has been written after  *)
(* the last square, so no selector is in effect where the trailing label   *)
(* stands or where the line ends; the leading label is unstyled too, and   *)
(* the text of every square in between is written under a selector.        *)
(***************************************************************************)
C9_NoStyleBleed ==
  \A k \in 1..i :
    LET l == out[k + 1]
    IN /\ ~StyleOn(l)
       /\ \A j \in {1, 2, Len(l) - 1, Len(l)} : ~StyleOn(SubSeq(l, 1, j - 1))
       /\ \A j \in 3..(Len(l) - 2) :
            l[j] \notin Selectors \cup {RESET_COLOR} => StyleOn(SubSeq(l, 1, j - 1))

\* A printed body line whose ordered rank token ends in a digit above 1.
C9_Witness ==
  /\ Finished /\ ~flip
  /\ board_lines = MixedRanks
  /\ ToDigit(board_lines[1][Len(board_lines[1])]) = 3
  /\ out[2][Len(out[2]) - 2] = RESET_COLOR
  /\ out[2][Len(out[2]) - 3] = "   "

(***************************************************************************)
(* C10.  Every character of a rendered rank token that takes the numeric   *)
(* branch has a decimal value, so the unwrap never fails and rendering     *)
(* runs to completion.  Stated as claimed.                                 *)
(***************************************************************************)
C10_UnwrapNeverFails ==
  (pc = "exit" /\ IsMatch(fen)) =>
    /\ \A k \in 1..Len(board_lines) :
         \A j \in 1..Len(board_lines[k]) :
           IsNumeric(board_lines[k][j]) => ToDigit(board_lines[k][j]) # None
    /\ exit_code = 0
    /\ Len(out) = Len(board_lines) + 3

\* What main prints on a normal end is the board of the split rank tokens.
OutputIsBoard ==
  Finished =>
    out = BoardLines(board_lines, flip) \o << <<"Active color: ", active_color>> >>

====
